---- MODULE Spec2Model ----
(***************************************************************************)
(* ICPC scoreboard (src/main.cpp): team registry, submissions, ranking     *)
(* with its four-level comparison, freeze and the scroll reveal loop.      *)
(*                                                                         *)
(* Strings that the program compares with operator< (team names) are       *)
(* sequences of character codes, so that the comparison is computed.       *)
(* Problem names are the one-letter strings string(1, 'A' + i).            *)
(* One action is one command of main()'s loop; scroll, whose intermediate  *)
(* rankings are observable through its notifications, is split at its loop *)
(* head: Scroll (entry, first flush and listing), ScrollReveal (one loop   *)
(* iteration), ScrollDone (loop exit, final listing, unfreeze).  While the *)
(* loop runs no other command is accepted.                                 *)
(*                                                                         *)
(* Spec offers every command.  SpecScroll, SpecTie, SpecCycles and         *)
(* SpecStats offer the commands that change the scoreboard, each with the  *)
(* teams, problems and times its properties need.  SpecRegister adds       *)
(* ADDTEAM of any name in any order and START with either problem count,   *)
(* SpecQuery the two queries and END, SpecHistory QUERY_SUBMISSION over    *)
(* the longer histories of one team.  All start from the constructor's     *)
(* state.                                                                  *)
(***************************************************************************)
EXTENDS Integers, Sequences, FiniteSets, TLC

VARIABLES teams, team_order, competition_started, is_frozen, duration_time,
          problem_count, problem_names, freeze_time, pc, out

vars == <<teams, team_order, competition_started, is_frozen, duration_time,
          problem_count, problem_names, freeze_time, pc, out>>

(* ------------------------------ bounds --------------------------------- *)

\* SUBMIT commands accepted in one run of Spec
MaxSubs == 2

\* SUBMIT commands accepted in one run of SpecScroll
MaxSubsScroll == 2

\* SUBMIT commands accepted in one run of SpecTie
MaxSubsTie == 3

\* SUBMIT commands accepted in one run of SpecCycles
MaxSubsCycles == 3

\* SUBMIT commands accepted in one run of SpecStats
MaxSubsStats == 2

\* the same, for the stream of the specification SpecRegister
MaxSubsRegister == 1

\* the same, for the stream of the specification SpecQuery
MaxSubsQuery == 2

\* the same, for the stream of the specification SpecHistory
MaxSubsHistory == 2

\* team names offered to ADDTEAM: "a", "ab", "b"
TeamNames == {<<97>>, <<97, 98>>, <<98>>}

\* the teams of SpecScroll, in the order they register: "b", "a", "ab"
Roster == <<<<98>>, <<97>>, <<97, 98>>>>

\* the teams of Spec and SpecTie, in the order they register: "ab", "a"
RosterTwo == <<<<97, 98>>, <<97>>>>

\* the team of SpecCycles and SpecStats: "a"
RosterOne == <<<<97>>>>

\* submission times offered to SUBMIT
Times == {1, 21}

\* verdicts offered to SUBMIT
Statuses == {"Accepted", "Wrong_Answer"}

\* problem counts offered to START
ProblemCounts == {1, 2}

\* durations offered to START
Durations == {300}

(* --------------------------- program constants ------------------------- *)

\* penalty per wrong attempt, calculate_team_stats
PenaltyPerWrong == 20

\* 'A' + i, start_competition
Alphabet == <<"A", "B", "C">>

\* the filter sentinel of query_submission
ALL == "ALL"

\* the empty string
EmptyName == <<>>

(* ------------------------------ data ----------------------------------- *)

\* ProblemStatus::ProblemStatus()
NewProblemStatus ==
    [solved |-> FALSE, solve_time |-> 0,
     wrong_attempts_before_first_success |-> 0,
     wrong_attempts_before_freeze |-> 0,
     submissions_after_freeze |-> 0, frozen |-> FALSE]

\* Team::Team(), followed by name = team_name (add_team).  problems is the
\* map<string, ProblemStatus>: a function whose domain is the set of keys.
NewTeam(team_name) ==
    [name |-> team_name, problems |-> [p \in {} |-> NewProblemStatus],
     submissions |-> <<>>, solved_count |-> 0, penalty_time |-> 0,
     ranking |-> 0, solve_times |-> <<>>]

\* map operator[]: the entry, value-initialised when the key is absent
ProblemAt(problems, pname) ==
    IF pname \in DOMAIN problems THEN problems[pname] ELSE NewProblemStatus

\* map operator[] used as an lvalue: the map with the key present
Touch(problems, pname) ==
    IF pname \in DOMAIN problems THEN problems
    ELSE [q \in DOMAIN problems \cup {pname} |->
            IF q = pname THEN NewProblemStatus ELSE problems[q]]

\* keys of a problems map in map iteration order (one-letter strings order as
\* their letters do)
ProblemKeys(problems) ==
    SelectSeq(Alphabet, LAMBDA q : q \in DOMAIN problems)

\* std::string operator< on names
RECURSIVE StrLess(_, _)
StrLess(s, t) ==
    IF t = <<>> THEN FALSE
    ELSE IF s = <<>> THEN TRUE
    ELSE IF Head(s) # Head(t) THEN Head(s) < Head(t)
    ELSE StrLess(Tail(s), Tail(t))

(* --------------------------- Stats Aggregator -------------------------- *)

\* mutant of SortDescending: sort(v.begin(), v.end()), non-decreasing order
RECURSIVE SortAscending(_)
SortAscending(v) ==
    IF v = <<>> THEN <<>>
    ELSE LET rest == SortAscending(Tail(v))
             k    == Cardinality({i \in 1..Len(rest) : rest[i] < Head(v)})
         IN  SubSeq(rest, 1, k) \o <<Head(v)>> \o SubSeq(rest, k + 1, Len(rest))

\* sort(v.rbegin(), v.rend()): the values in non-increasing order
RECURSIVE InsertDescending(_, _)
InsertDescending(sorted, x) ==
    IF sorted = <<>> THEN <<x>>
    ELSE IF x >= Head(sorted) THEN <<x>> \o sorted
    ELSE <<Head(sorted)>> \o InsertDescending(Tail(sorted), x)

RECURSIVE SortDescending(_)
SortDescending(v) ==
    IF v = <<>> THEN <<>>
    ELSE InsertDescending(SortDescending(Tail(v)), Head(v))

\* the loop of calculate_team_stats over team.problems, in key order
RECURSIVE StatsLoop(_, _, _, _)
StatsLoop(problems, keys, include_frozen, acc) ==
    IF keys = <<>> THEN acc
    ELSE LET ps == problems[Head(keys)]
             nxt == IF ps.solved /\ (~ps.frozen \/ include_frozen)
                    THEN [solved_count |-> acc.solved_count + 1,
                          penalty_time |-> acc.penalty_time + ps.solve_time
                              + PenaltyPerWrong * ps.wrong_attempts_before_first_success,
                          solve_times |-> Append(acc.solve_times, ps.solve_time)]
                    ELSE acc
         IN  StatsLoop(problems, Tail(keys), include_frozen, nxt)

\* mutant of calculate_team_stats: the three derived fields are not reset
\* before the loop
calculate_team_stats_NoReset(team, include_frozen) ==
    LET acc == StatsLoop(team.problems, ProblemKeys(team.problems), include_frozen,
                         [solved_count |-> team.solved_count,
                          penalty_time |-> team.penalty_time,
                          solve_times |-> team.solve_times])
    IN  [team EXCEPT !.solved_count = acc.solved_count,
                     !.penalty_time = acc.penalty_time,
                     !.solve_times = SortDescending(acc.solve_times)]

\* calculate_team_stats: the team with its three derived fields recomputed
calculate_team_stats(team, include_frozen) ==
    LET acc == StatsLoop(team.problems, ProblemKeys(team.problems), include_frozen,
                         [solved_count |-> 0, penalty_time |-> 0, solve_times |-> <<>>])
    IN  [team EXCEPT !.solved_count = acc.solved_count,
                     !.penalty_time = acc.penalty_time,
                     !.solve_times = SortDescending(acc.solve_times)]

(* -------------------------------- Ranker ------------------------------- *)

Min(a, b) == IF a <= b THEN a ELSE b

\* the loop of compare_teams over the two solve-time profiles, from index i:
\* "lt" / "gt" at the first differing index, "eq" when the shared indexes agree
RECURSIVE CompareProfiles(_, _, _)
CompareProfiles(v1, v2, i) ==
    IF i > Min(Len(v1), Len(v2)) THEN "eq"
    ELSE IF v1[i] # v2[i] THEN (IF v1[i] < v2[i] THEN "lt" ELSE "gt")
    ELSE CompareProfiles(v1, v2, i + 1)

\* mutant of compare_teams: the larger solve time wins at the first
\* differing index of the profiles
compare_teams_LaterSolveFirst(T, name1, name2, include_frozen) ==
    LET t1 == calculate_team_stats(T[name1], include_frozen)
        t2 == calculate_team_stats(T[name2], include_frozen)
        c  == CompareProfiles(t1.solve_times, t2.solve_times, 1)
    IN  IF t1.solved_count # t2.solved_count THEN t1.solved_count > t2.solved_count
        ELSE IF t1.penalty_time # t2.penalty_time THEN t1.penalty_time < t2.penalty_time
        ELSE IF c # "eq" THEN c = "gt"
        ELSE StrLess(name1, name2)

\* mutant of compare_teams: the smaller solved count wins
compare_teams_FewerSolvedFirst(T, name1, name2, include_frozen) ==
    LET t1 == calculate_team_stats(T[name1], include_frozen)
        t2 == calculate_team_stats(T[name2], include_frozen)
        c  == CompareProfiles(t1.solve_times, t2.solve_times, 1)
    IN  IF t1.solved_count # t2.solved_count THEN t1.solved_count < t2.solved_count
        ELSE IF t1.penalty_time # t2.penalty_time THEN t1.penalty_time < t2.penalty_time
        ELSE IF c # "eq" THEN c = "lt"
        ELSE StrLess(name1, name2)

\* compare_teams: TRUE iff name1 orders before name2
compare_teams(T, name1, name2, include_frozen) ==
    LET t1 == calculate_team_stats(T[name1], include_frozen)
        t2 == calculate_team_stats(T[name2], include_frozen)
        c  == CompareProfiles(t1.solve_times, t2.solve_times, 1)
    IN  IF t1.solved_count # t2.solved_count THEN t1.solved_count > t2.solved_count
        ELSE IF t1.penalty_time # t2.penalty_time THEN t1.penalty_time < t2.penalty_time
        ELSE IF c # "eq" THEN c = "lt"
        ELSE StrLess(name1, name2)

\* std::sort of team names with the compare_teams lambda (the comparison is a
\* strict weak order, so the result is the one sorted arrangement)
RECURSIVE InsertTeam(_, _, _, _)
InsertTeam(T, sorted, x, include_frozen) ==
    IF sorted = <<>> THEN <<x>>
    ELSE IF compare_teams(T, x, Head(sorted), include_frozen) THEN <<x>> \o sorted
    ELSE <<Head(sorted)>> \o InsertTeam(T, Tail(sorted), x, include_frozen)

RECURSIVE SortTeams(_, _, _)
SortTeams(T, order, include_frozen) ==
    IF order = <<>> THEN <<>>
    ELSE InsertTeam(T, SortTeams(T, SubSeq(order, 1, Len(order) - 1), include_frozen),
                    order[Len(order)], include_frozen)

\* the side effect of that sort on the teams: compare_teams stores the stats
\* of both teams it is called with, and a sort of two or more elements passes
\* every element to the comparison at least once
SortEffect(T, order, include_frozen) ==
    IF Len(order) >= 2
    THEN [n \in DOMAIN T |-> calculate_team_stats(T[n], include_frozen)]
    ELSE T

\* mutant of AssignRanks: ranking = i, the zero-based index
AssignRanks_ZeroBased(T, sorted) ==
    [n \in DOMAIN T |->
        IF \E i \in 1..Len(sorted) : sorted[i] = n
        THEN [T[n] EXCEPT !.ranking = (CHOOSE i \in 1..Len(sorted) : sorted[i] = n) - 1]
        ELSE T[n]]

\* the loop of flush_scoreboard / start_competition writing ranking = i + 1
AssignRanks(T, sorted) ==
    [n \in DOMAIN T |->
        IF \E i \in 1..Len(sorted) : sorted[i] = n
        THEN [T[n] EXCEPT !.ranking = CHOOSE i \in 1..Len(sorted) : sorted[i] = n]
        ELSE T[n]]

\* flush_scoreboard
flush_scoreboard(T, order) ==
    AssignRanks(SortEffect(T, order, FALSE), SortTeams(T, order, FALSE))

\* mutant of SortNames: the names stay in registration order
SortNames_Unsorted(order) == order

\* std::sort of team names with operator<
RECURSIVE InsertName(_, _)
InsertName(sorted, x) ==
    IF sorted = <<>> THEN <<x>>
    ELSE IF StrLess(x, Head(sorted)) THEN <<x>> \o sorted
    ELSE <<Head(sorted)>> \o InsertName(Tail(sorted), x)

RECURSIVE SortNames(_)
SortNames(order) ==
    IF order = <<>> THEN <<>>
    ELSE InsertName(SortNames(SubSeq(order, 1, Len(order) - 1)), order[Len(order)])

(* ------------------------------- listing ------------------------------- *)

\* one cell of print_scoreboard
Cell(problems, pname) ==
    IF pname \in DOMAIN problems
    THEN LET ps == problems[pname]
         IN  IF ps.frozen
             THEN <<(IF ps.wrong_attempts_before_freeze = 0 THEN "" ELSE "-"),
                    ps.wrong_attempts_before_freeze, "/", ps.submissions_after_freeze>>
             ELSE IF ps.solved
             THEN (IF ps.wrong_attempts_before_first_success > 0
                   THEN <<"+", ps.wrong_attempts_before_first_success>> ELSE <<"+">>)
             ELSE (IF ps.wrong_attempts_before_freeze = 0 THEN <<".">>
                   ELSE <<"-", ps.wrong_attempts_before_freeze>>)
    ELSE <<".">>

\* one row of print_scoreboard, for a team whose stats were just computed
Row(team, pnames) ==
    <<"row", team.name, team.ranking, team.solved_count, team.penalty_time,
      [i \in 1..Len(pnames) |-> Cell(team.problems, pnames[i])]>>

\* print_scoreboard: the teams afterwards (every team's stats are stored)
ListingEffect(T) == [n \in DOMAIN T |-> calculate_team_stats(T[n], FALSE)]

\* print_scoreboard: the rows written
print_scoreboard(T, order, pnames) ==
    LET sorted == SortTeams(T, order, FALSE)
    IN  [i \in 1..Len(sorted) |-> Row(ListingEffect(T)[sorted[i]], pnames)]

(* ------------------------------- helpers ------------------------------- *)

\* number of SUBMIT commands processed so far
RECURSIVE TotalSubs(_, _)
TotalSubs(T, names) ==
    IF names = {} THEN 0
    ELSE LET n == CHOOSE x \in names : TRUE
         IN  Len(T[n].submissions) + TotalSubs(T, names \ {n})

\* the has_frozen loop of scroll
has_frozen(team) == \E q \in DOMAIN team.problems : team.problems[q].frozen

\* mutant of FindLowest: the scan runs from the front of the sorted teams
FindLowest_FromFront(T, sorted, i) ==
    LET F == {k \in 1..i : \E q \in DOMAIN T[sorted[k]].problems :
                               T[sorted[k]].problems[q].frozen}
    IN  IF F = {} THEN EmptyName
        ELSE sorted[CHOOSE k \in F : \A j \in F : k <= j]

\* scroll, "Find lowest ranked team with frozen problems": scan from the back
RECURSIVE FindLowest(_, _, _)
FindLowest(T, sorted, i) ==
    IF i < 1 THEN EmptyName
    ELSE IF has_frozen(T[sorted[i]]) THEN sorted[i]
    ELSE FindLowest(T, sorted, i - 1)

\* scroll, "Find smallest problem number that is frozen": index into
\* problem_names of the first frozen problem, 0 when the loop finds none
RECURSIVE FindFrozen(_, _, _)
FindFrozen(problems, pnames, i) ==
    IF i > Len(pnames) THEN 0
    ELSE IF ProblemAt(problems, pnames[i]).frozen THEN i
    ELSE FindFrozen(problems, pnames, i + 1)

\* the entries that loop creates through operator[]: pnames[1..k]
RECURSIVE TouchAll(_, _, _)
TouchAll(problems, pnames, k) ==
    IF k = 0 THEN problems
    ELSE Touch(TouchAll(problems, pnames, k - 1), pnames[k])

\* one frozen submission of the replay: does line 304 select it
IsFrozenSub(sub, pname) == sub.problem = pname /\ ~sub.before_freeze

\* scroll, "Process frozen submissions": the loop over team.submissions from
\* index i, carrying ps and additional_wrong_attempts
RECURSIVE ReplayLoop(_, _, _, _, _)
ReplayLoop(subs, i, pname, ps, additional) ==
    IF i > Len(subs) THEN [ps |-> ps, additional |-> additional]
    ELSE IF IsFrozenSub(subs[i], pname) /\ ~ps.solved
    THEN IF subs[i].status = "Accepted"
         THEN ReplayLoop(subs, i + 1, pname,
                  [ps EXCEPT !.solved = TRUE, !.solve_time = subs[i].time,
                             !.wrong_attempts_before_first_success =
                                 ps.wrong_attempts_before_freeze + additional],
                  additional)
         ELSE ReplayLoop(subs, i + 1, pname, ps, additional + 1)
    ELSE ReplayLoop(subs, i + 1, pname, ps, additional)

\* mutant of Unfreeze: the frozen flag is not cleared
Unfreeze_KeepFlag(team, pname) ==
    LET r == ReplayLoop(team.submissions, 1, pname, ProblemAt(team.problems, pname), 0)
    IN  IF ~r.ps.solved
        THEN [r.ps EXCEPT !.wrong_attempts_before_freeze = @ + r.additional]
        ELSE r.ps

\* scroll lines 297-319: the revealed ProblemStatus
Unfreeze(team, pname) ==
    LET r == ReplayLoop(team.submissions, 1, pname,
                        [ProblemAt(team.problems, pname) EXCEPT !.frozen = FALSE], 0)
    IN  IF ~r.ps.solved
        THEN [r.ps EXCEPT !.wrong_attempts_before_freeze = @ + r.additional]
        ELSE r.ps

\* mutant of ReplacedTeam: the team that was one rank above lowest_team
RECURSIVE ReplacedTeam_OneAbove(_, _, _, _, _)
ReplacedTeam_OneAbove(old_rankings, sorted, i, new_rank, lowest_team) ==
    IF i > Len(sorted) THEN EmptyName
    ELSE IF old_rankings[sorted[i]] = old_rankings[lowest_team] - 1
            /\ sorted[i] # lowest_team THEN sorted[i]
    ELSE ReplacedTeam_OneAbove(old_rankings, sorted, i + 1, new_rank, lowest_team)

\* scroll lines 336-342: first name in sorted with the old rank new_rank
RECURSIVE ReplacedTeam(_, _, _, _, _)
ReplacedTeam(old_rankings, sorted, i, new_rank, lowest_team) ==
    IF i > Len(sorted) THEN EmptyName
    ELSE IF old_rankings[sorted[i]] = new_rank /\ sorted[i] # lowest_team THEN sorted[i]
    ELSE ReplacedTeam(old_rankings, sorted, i + 1, new_rank, lowest_team)

\* mutant of FindSubmission: the oldest matching submission, not the newest
FindSubmission_Oldest(subs, i, problem, status) ==
    LET M == {k \in 1..i : /\ (problem = ALL \/ subs[k].problem = problem)
                            /\ (status = ALL \/ subs[k].status = status)}
    IN  IF M = {} THEN 0 ELSE CHOOSE k \in M : \A j \in M : k <= j

\* query_submission: the loop from the back of team.submissions; 0 = nullptr
RECURSIVE FindSubmission(_, _, _, _)
FindSubmission(subs, i, problem, status) ==
    IF i < 1 THEN 0
    ELSE IF (problem = ALL \/ subs[i].problem = problem)
            /\ (status = ALL \/ subs[i].status = status) THEN i
    ELSE FindSubmission(subs, i - 1, problem, status)

\* the elements of a sequence
Range(f) == {f[i] : i \in DOMAIN f}

(* -------------------------------- state -------------------------------- *)

\* ICPCSystem::ICPCSystem()
Init ==
    /\ teams = [n \in {} |-> NewTeam(n)]
    /\ team_order = <<>>
    /\ competition_started = FALSE
    /\ is_frozen = FALSE
    /\ duration_time = 0
    /\ problem_count = 0
    /\ problem_names = <<>>
    /\ freeze_time = 0
    /\ pc = "idle"
    /\ out = <<>>

\* mutant of add_team: the name is not looked up before the team is stored
add_team_NoDuplicateCheck(team_name) ==
    /\ pc = "idle"
    /\ IF competition_started
       THEN /\ out' = <<<<"Error", "Add failed: competition has started.">>>>
            /\ UNCHANGED <<teams, team_order>>
       ELSE /\ teams' = [n \in DOMAIN teams \cup {team_name} |->
                            IF n = team_name THEN NewTeam(team_name) ELSE teams[n]]
            /\ team_order' = Append(team_order, team_name)
            /\ out' = <<<<"Info", "Add successfully.">>>>
    /\ UNCHANGED <<competition_started, is_frozen, duration_time, problem_count,
                   problem_names, freeze_time, pc>>

\* ADDTEAM
add_team(team_name) ==
    /\ pc = "idle"
    /\ IF competition_started
       THEN /\ out' = <<<<"Error", "Add failed: competition has started.">>>>
            /\ UNCHANGED <<teams, team_order>>
       ELSE IF team_name \in DOMAIN teams
       THEN /\ out' = <<<<"Error", "Add failed: duplicated team name.">>>>
            /\ UNCHANGED <<teams, team_order>>
       ELSE /\ teams' = [n \in DOMAIN teams \cup {team_name} |->
                            IF n = team_name THEN NewTeam(team_name) ELSE teams[n]]
            /\ team_order' = Append(team_order, team_name)
            /\ out' = <<<<"Info", "Add successfully.">>>>
    /\ UNCHANGED <<competition_started, is_frozen, duration_time, problem_count,
                   problem_names, freeze_time, pc>>

\* START
start_competition(duration, problems) ==
    /\ pc = "idle"
    /\ IF competition_started
       THEN /\ out' = <<<<"Error", "Start failed: competition has started.">>>>
            /\ UNCHANGED <<teams, competition_started, duration_time, problem_count,
                           problem_names>>
       ELSE /\ competition_started' = TRUE
            /\ duration_time' = duration
            /\ problem_count' = problems
            /\ problem_names' = problem_names \o SubSeq(Alphabet, 1, problems)
            /\ teams' = AssignRanks(teams, SortNames(team_order))
            /\ out' = <<<<"Info", "Competition starts.">>>>
    /\ UNCHANGED <<team_order, is_frozen, freeze_time, pc>>

\* mutant of SubmitStatus: outside freeze mode an Accepted submission to a
\* solved problem solves it again
SubmitStatus_SolveAgain(ps, status, time, frozen_mode) ==
    IF frozen_mode
    THEN IF ~ps.solved
         THEN [ps EXCEPT !.frozen = TRUE, !.submissions_after_freeze = @ + 1]
         ELSE ps
    ELSE IF status = "Accepted"
         THEN [ps EXCEPT !.solved = TRUE, !.solve_time = time,
                         !.wrong_attempts_before_first_success =
                             ps.wrong_attempts_before_freeze]
         ELSE IF ~ps.solved
              THEN [ps EXCEPT !.wrong_attempts_before_freeze = @ + 1]
              ELSE ps

\* mutant of SubmitStatus: in freeze mode a solved problem is frozen too
SubmitStatus_FreezeSolved(ps, status, time, frozen_mode) ==
    IF frozen_mode
    THEN [ps EXCEPT !.frozen = TRUE, !.submissions_after_freeze = @ + 1]
    ELSE IF ~ps.solved
         THEN IF status = "Accepted"
              THEN [ps EXCEPT !.solved = TRUE, !.solve_time = time,
                              !.wrong_attempts_before_first_success =
                                  ps.wrong_attempts_before_freeze]
              ELSE [ps EXCEPT !.wrong_attempts_before_freeze = @ + 1]
         ELSE ps

\* mutant of SubmitStatus: the freeze mode is not looked at
SubmitStatus_IgnoreFreeze(ps, status, time, frozen_mode) ==
    IF ~ps.solved
    THEN IF status = "Accepted"
         THEN [ps EXCEPT !.solved = TRUE, !.solve_time = time,
                         !.wrong_attempts_before_first_success =
                             ps.wrong_attempts_before_freeze]
         ELSE [ps EXCEPT !.wrong_attempts_before_freeze = @ + 1]
    ELSE ps

\* submit lines 198-215: the ProblemStatus after a submission
SubmitStatus(ps, status, time, frozen_mode) ==
    IF frozen_mode
    THEN IF ~ps.solved
         THEN [ps EXCEPT !.frozen = TRUE, !.submissions_after_freeze = @ + 1]
         ELSE ps
    ELSE IF ~ps.solved
         THEN IF status = "Accepted"
              THEN [ps EXCEPT !.solved = TRUE, !.solve_time = time,
                              !.wrong_attempts_before_first_success =
                                  ps.wrong_attempts_before_freeze]
              ELSE [ps EXCEPT !.wrong_attempts_before_freeze = @ + 1]
         ELSE ps

\* mutant of submit: the ranks follow every submission
submit_ThenFlush(problem, team_name, status, time) ==
    /\ pc = "idle"
    /\ team_name \in DOMAIN teams
    /\ problem \in Range(problem_names)
    /\ LET team == teams[team_name]
           ps   == ProblemAt(team.problems, problem)
           sub  == [problem |-> problem, status |-> status, time |-> time,
                    before_freeze |-> ~is_frozen]
           T1   == [teams EXCEPT ![team_name] =
                        [team EXCEPT !.problems =
                                        [Touch(team.problems, problem) EXCEPT
                                            ![problem] =
                                                SubmitStatus(ps, status, time, is_frozen)],
                                     !.submissions = Append(team.submissions, sub)]]
       IN  teams' = flush_scoreboard(T1, team_order)
    /\ out' = <<>>
    /\ UNCHANGED <<team_order, competition_started, is_frozen, duration_time,
                   problem_count, problem_names, freeze_time, pc>>

\* SUBMIT.  The command stream is taken as validated: the team is registered
\* and the problem is one of problem_names.
submit(problem, team_name, status, time) ==
    /\ pc = "idle"
    /\ team_name \in DOMAIN teams
    /\ problem \in Range(problem_names)
    /\ LET team == teams[team_name]
           ps   == ProblemAt(team.problems, problem)
           sub  == [problem |-> problem, status |-> status, time |-> time,
                    before_freeze |-> ~is_frozen]
       IN  teams' = [teams EXCEPT ![team_name] =
                        [team EXCEPT !.problems =
                                        [Touch(team.problems, problem) EXCEPT
                                            ![problem] =
                                                SubmitStatus(ps, status, time, is_frozen)],
                                     !.submissions = Append(team.submissions, sub)]]
    /\ out' = <<>>
    /\ UNCHANGED <<team_order, competition_started, is_frozen, duration_time,
                   problem_count, problem_names, freeze_time, pc>>

\* FLUSH
flush ==
    /\ pc = "idle"
    /\ teams' = flush_scoreboard(teams, team_order)
    /\ out' = <<<<"Info", "Flush scoreboard.">>>>
    /\ UNCHANGED <<team_order, competition_started, is_frozen, duration_time,
                   problem_count, problem_names, freeze_time, pc>>

\* FREEZE
freeze ==
    /\ pc = "idle"
    /\ IF is_frozen
       THEN /\ out' = <<<<"Error", "Freeze failed: scoreboard has been frozen.">>>>
            /\ UNCHANGED <<is_frozen, freeze_time>>
       ELSE /\ is_frozen' = TRUE
            /\ freeze_time' = 0
            /\ out' = <<<<"Info", "Freeze scoreboard.">>>>
    /\ UNCHANGED <<teams, team_order, competition_started, duration_time,
                   problem_count, problem_names, pc>>

\* mutant of scroll: flush_scoreboard runs before the freeze mode is tested
scroll_FlushFirst ==
    /\ pc = "idle"
    /\ LET T1 == flush_scoreboard(teams, team_order)
       IN  IF ~is_frozen
           THEN /\ out' = <<<<"Error", "Scroll failed: scoreboard has not been frozen.">>>>
                /\ teams' = T1
                /\ pc' = pc
           ELSE /\ out' = <<<<"Info", "Scroll scoreboard.">>>>
                          \o print_scoreboard(T1, team_order, problem_names)
                /\ teams' = ListingEffect(T1)
                /\ pc' = "revealing"
    /\ UNCHANGED <<team_order, competition_started, is_frozen, duration_time,
                   problem_count, problem_names, freeze_time>>

\* SCROLL, up to the head of the while loop
scroll ==
    /\ pc = "idle"
    /\ IF ~is_frozen
       THEN /\ out' = <<<<"Error", "Scroll failed: scoreboard has not been frozen.">>>>
            /\ UNCHANGED <<teams, pc>>
       ELSE LET T1 == flush_scoreboard(teams, team_order)
            IN  /\ out' = <<<<"Info", "Scroll scoreboard.">>>>
                          \o print_scoreboard(T1, team_order, problem_names)
                /\ teams' = ListingEffect(T1)
                /\ pc' = "revealing"
    /\ UNCHANGED <<team_order, competition_started, is_frozen, duration_time,
                   problem_count, problem_names, freeze_time>>

\* scroll lines 261-281 on the current state: the team the loop picks
LowestFrozenTeam ==
    FindLowest(SortEffect(teams, team_order, FALSE),
               SortTeams(teams, team_order, FALSE), Len(team_order))

\* scroll line 283: the loop breaks
LoopExits == LowestFrozenTeam = EmptyName

\* scroll lines 283-293: the loop goes on and finds the problem to reveal in
\* problem_names
LoopReveals ==
    /\ LowestFrozenTeam # EmptyName
    /\ FindFrozen(teams[LowestFrozenTeam].problems, problem_names, 1) # 0

\* SCROLL, one iteration of the while loop that reveals a problem
ScrollReveal ==
    /\ pc = "revealing"
    /\ LoopReveals
    /\ LET sorted      == SortTeams(teams, team_order, FALSE)
           T1          == SortEffect(teams, team_order, FALSE)
           lowest_team == FindLowest(T1, sorted, Len(sorted))
       IN  /\ lowest_team # EmptyName
           /\ LET team     == T1[lowest_team]
                  k        == FindFrozen(team.problems, problem_names, 1)
                  unfreeze_problem == problem_names[k]
                  old_rank == team.ranking
                  team2    == [team EXCEPT !.problems =
                                  [TouchAll(team.problems, problem_names, k)
                                      EXCEPT ![unfreeze_problem] =
                                          Unfreeze(team, unfreeze_problem)]]
                  T2       == [T1 EXCEPT ![lowest_team] = team2]
                  old_rankings == [n \in Range(sorted) |-> T2[n].ranking]
                  T3       == flush_scoreboard(T2, team_order)
                  new_rank == T3[lowest_team].ranking
                  replaced_team ==
                      ReplacedTeam(old_rankings, sorted, 1, new_rank, lowest_team)
                  T4       == [T3 EXCEPT ![lowest_team] =
                                  calculate_team_stats(T3[lowest_team], FALSE)]
              IN  /\ k # 0
                  /\ IF new_rank < old_rank
                     THEN /\ teams' = T4
                          /\ out' = Append(out, <<"change", lowest_team, replaced_team,
                                        T4[lowest_team].solved_count,
                                        T4[lowest_team].penalty_time>>)
                     ELSE /\ teams' = T3
                          /\ out' = out
    /\ UNCHANGED <<team_order, competition_started, is_frozen, duration_time,
                   problem_count, problem_names, freeze_time, pc>>

\* mutant of ScrollDone: the attempts-while-frozen counters are not reset
ScrollDone_NoReset ==
    /\ pc = "revealing"
    /\ LoopExits
    /\ LET T1 == SortEffect(teams, team_order, FALSE)
       IN  /\ out' = out \o print_scoreboard(T1, team_order, problem_names)
           /\ teams' = ListingEffect(T1)
    /\ is_frozen' = FALSE
    /\ pc' = "idle"
    /\ UNCHANGED <<team_order, competition_started, duration_time, problem_count,
                   problem_names, freeze_time>>

\* SCROLL, the iteration that breaks out of the loop, and lines 350-362
ScrollDone ==
    /\ pc = "revealing"
    /\ LoopExits
    /\ LET sorted      == SortTeams(teams, team_order, FALSE)
           T1          == SortEffect(teams, team_order, FALSE)
           lowest_team == FindLowest(T1, sorted, Len(sorted))
       IN  /\ lowest_team = EmptyName
           /\ out' = out \o print_scoreboard(T1, team_order, problem_names)
           /\ teams' = [n \in DOMAIN T1 |->
                          [ListingEffect(T1)[n] EXCEPT !.problems =
                              [q \in DOMAIN T1[n].problems |->
                                  [T1[n].problems[q] EXCEPT
                                      !.submissions_after_freeze = 0]]]]
    /\ is_frozen' = FALSE
    /\ pc' = "idle"
    /\ UNCHANGED <<team_order, competition_started, duration_time, problem_count,
                   problem_names, freeze_time>>

\* QUERY_RANKING
query_ranking(team_name) ==
    /\ pc = "idle"
    /\ out' = IF team_name \notin DOMAIN teams
              THEN <<<<"Error", "Query ranking failed: cannot find the team.">>>>
              ELSE <<<<"Info", "Complete query ranking.">>>>
                   \o (IF is_frozen THEN <<<<"Warning", "Scoreboard is frozen.">>>>
                       ELSE <<>>)
                   \o <<<<"ranking", team_name, teams[team_name].ranking>>>>
    /\ UNCHANGED <<teams, team_order, competition_started, is_frozen, duration_time,
                   problem_count, problem_names, freeze_time, pc>>

\* QUERY_SUBMISSION
query_submission(team_name, problem, status) ==
    /\ pc = "idle"
    /\ out' = IF team_name \notin DOMAIN teams
              THEN <<<<"Error", "Query submission failed: cannot find the team.">>>>
              ELSE LET subs  == teams[team_name].submissions
                       found == FindSubmission(subs, Len(subs), problem, status)
                   IN  <<<<"Info", "Complete query submission.">>>>
                       \o (IF found # 0
                           THEN <<<<"submission", team_name, subs[found].problem,
                                    subs[found].status, subs[found].time>>>>
                           ELSE <<<<"Cannot find any submission.">>>>)
    /\ UNCHANGED <<teams, team_order, competition_started, is_frozen, duration_time,
                   problem_count, problem_names, freeze_time, pc>>

\* END: main() leaves its loop
end_competition ==
    /\ pc = "idle"
    /\ pc' = "ended"
    /\ out' = <<<<"Info", "Competition ends.">>>>
    /\ UNCHANGED <<teams, team_order, competition_started, is_frozen, duration_time,
                   problem_count, problem_names, freeze_time>>

\* the next team of a roster to register, or its first team again once all
\* have (the duplicate ADDTEAM)
NextOf(roster) ==
    IF Len(team_order) < Len(roster) THEN roster[Len(team_order) + 1] ELSE roster[1]

\* every command, any stream of at most MaxSubs submissions by the teams of
\* RosterTwo
Next ==
    \/ \E n \in {NextOf(RosterTwo), RosterTwo[1]} : add_team(n)
    \/ \E d \in Durations, c \in ProblemCounts : start_competition(d, c)
    \/ \E p \in Range(Alphabet), n \in TeamNames, s \in Statuses, t \in Times :
          TotalSubs(teams, DOMAIN teams) < MaxSubs /\ submit(p, n, s, t)
    \/ flush
    \/ freeze
    \/ scroll
    \/ ScrollReveal
    \/ ScrollDone
    \/ \E n \in TeamNames : query_ranking(n)
    \/ \E n \in TeamNames, p \in Range(Alphabet) \cup {ALL}, s \in Statuses \cup {ALL} :
          query_submission(n, p, s)
    \/ end_competition

Spec == Init /\ [][Next]_vars

\* the commands that change the scoreboard, three teams, two problems, every
\* submission at time 1
NextScroll ==
    \/ add_team(NextOf(Roster))
    \/ \E d \in Durations : start_competition(d, 2)
    \/ \E p \in Range(Alphabet), n \in TeamNames, s \in Statuses :
          TotalSubs(teams, DOMAIN teams) < MaxSubsScroll /\ submit(p, n, s, 1)
    \/ flush
    \/ freeze
    \/ scroll
    \/ ScrollReveal
    \/ ScrollDone

SpecScroll == Init /\ [][NextScroll]_vars

\* ADDTEAM, START, SUBMIT and FLUSH, three teams, one problem, times 1 and 21:
\* equal solved counts and penalties with different solve times
NextTie ==
    \/ add_team(NextOf(Roster))
    \/ \E d \in Durations : start_competition(d, 1)
    \/ \E p \in Range(Alphabet), n \in TeamNames, s \in Statuses, t \in Times :
          TotalSubs(teams, DOMAIN teams) < MaxSubsTie /\ submit(p, n, s, t)
    \/ flush

SpecTie == Init /\ [][NextTie]_vars

\* the commands that change the scoreboard, one team, one problem, time 1:
\* several freeze / scroll cycles over the same problem
NextCycles ==
    \/ add_team(NextOf(RosterOne))
    \/ \E d \in Durations : start_competition(d, 1)
    \/ \E p \in Range(Alphabet), n \in TeamNames, s \in Statuses :
          TotalSubs(teams, DOMAIN teams) < MaxSubsCycles /\ submit(p, n, s, 1)
    \/ flush
    \/ freeze
    \/ scroll
    \/ ScrollReveal
    \/ ScrollDone

SpecCycles == Init /\ [][NextCycles]_vars

\* the commands that change the scoreboard, one team, two problems, times 1
\* and 21: solved problems whose map order is not their solve-time order
NextStats ==
    \/ add_team(NextOf(RosterOne))
    \/ \E d \in Durations : start_competition(d, 2)
    \/ \E p \in Range(Alphabet), n \in TeamNames, s \in Statuses, t \in Times :
          TotalSubs(teams, DOMAIN teams) < MaxSubsStats /\ submit(p, n, s, t)
    \/ flush
    \/ freeze
    \/ scroll
    \/ ScrollReveal
    \/ ScrollDone

SpecStats == Init /\ [][NextStats]_vars

\* ADDTEAM of any name in any order, START with one or two problems, and the
\* commands that change the scoreboard; every submission at time 1
NextRegister ==
    \/ \E n \in TeamNames : add_team(n)
    \/ \E d \in Durations, c \in ProblemCounts : start_competition(d, c)
    \/ \E p \in Range(Alphabet), n \in TeamNames, s \in Statuses :
          TotalSubs(teams, DOMAIN teams) < MaxSubsRegister /\ submit(p, n, s, 1)
    \/ flush
    \/ freeze
    \/ scroll
    \/ ScrollReveal
    \/ ScrollDone

SpecRegister == Init /\ [][NextRegister]_vars

\* every command with the two queries, two teams, two problems, every
\* submission at time 1
NextQuery ==
    \/ add_team(NextOf(RosterTwo))
    \/ \E d \in Durations : start_competition(d, 2)
    \/ \E p \in Range(Alphabet), n \in TeamNames, s \in Statuses :
          TotalSubs(teams, DOMAIN teams) < MaxSubsQuery /\ submit(p, n, s, 1)
    \/ flush
    \/ freeze
    \/ scroll
    \/ ScrollReveal
    \/ ScrollDone
    \/ \E n \in TeamNames : query_ranking(n)
    \/ \E n \in TeamNames, p \in Range(Alphabet) \cup {ALL}, s \in Statuses \cup {ALL} :
          query_submission(n, p, s)
    \/ end_competition

SpecQuery == Init /\ [][NextQuery]_vars

\* SUBMIT, FREEZE, SCROLL and QUERY_SUBMISSION, one team, two problems, every
\* submission at time 1: histories of up to MaxSubsHistory submissions
NextHistory ==
    \/ add_team(NextOf(RosterOne))
    \/ \E d \in Durations : start_competition(d, 2)
    \/ \E p \in Range(Alphabet), n \in TeamNames, s \in Statuses :
          TotalSubs(teams, DOMAIN teams) < MaxSubsHistory /\ submit(p, n, s, 1)
    \/ freeze
    \/ scroll
    \/ ScrollReveal
    \/ ScrollDone
    \/ \E n \in TeamNames, p \in Range(Alphabet) \cup {ALL}, s \in Statuses \cup {ALL} :
          query_submission(n, p, s)

SpecHistory == Init /\ [][NextHistory]_vars

(* ======================================================================= *)
(* Properties                                                              *)
(* ======================================================================= *)

\* the registered teams
Registered == Range(team_order)

\* the problems of a team's map that count under a visibility mode
Counted(T, n, include_frozen) ==
    {q \in DOMAIN T[n].problems :
        T[n].problems[q].solved /\ (include_frozen \/ ~T[n].problems[q].frozen)}

\* sum over a set of problems of solveTime + 20 x wrongAttemptsBeforeFirstSuccess
RECURSIVE PenaltySum(_, _)
PenaltySum(problems, S) ==
    IF S = {} THEN 0
    ELSE LET q == CHOOSE x \in S : TRUE
         IN  problems[q].solve_time + 20 * problems[q].wrong_attempts_before_first_success
             + PenaltySum(problems, S \ {q})

\* the exclude-frozen figures of a team, from its problem statuses
SolvedOf(T, n) == Cardinality(Counted(T, n, FALSE))
PenaltyOf(T, n) == PenaltySum(T[n].problems, Counted(T, n, FALSE))
ProfileOf(T, n) == calculate_team_stats(T[n], FALSE).solve_times

\* lexicographic order of two names, stated on positions
LexLess(s, t) ==
    \E k \in 0..Min(Len(s), Len(t)) :
        /\ \A j \in 1..k : s[j] = t[j]
        /\ \/ k = Len(s) /\ k < Len(t)
           \/ k < Len(s) /\ k < Len(t) /\ s[k + 1] < t[k + 1]

\* first index at which two profiles differ among the shared ones, 0 if none
FirstDiff(v1, v2) ==
    LET D == {i \in 1..Min(Len(v1), Len(v2)) : v1[i] # v2[i]}
    IN  IF D = {} THEN 0 ELSE CHOOSE i \in D : \A j \in D : i <= j

\* x precedes y under the four-level chain, on exclude-frozen figures
Precedes(T, x, y) ==
    LET d == FirstDiff(ProfileOf(T, x), ProfileOf(T, y))
    IN  \/ SolvedOf(T, x) > SolvedOf(T, y)
        \/ /\ SolvedOf(T, x) = SolvedOf(T, y)
           /\ \/ PenaltyOf(T, x) < PenaltyOf(T, y)
              \/ /\ PenaltyOf(T, x) = PenaltyOf(T, y)
                 /\ IF d # 0 THEN ProfileOf(T, x)[d] < ProfileOf(T, y)[d]
                    ELSE LexLess(x, y)

\* the lines that open the output of the commands
FlushInfo == <<"Info", "Flush scoreboard.">>
ScrollInfo == <<"Info", "Scroll scoreboard.">>
FreezeInfo == <<"Info", "Freeze scoreboard.">>
FreezeError == <<"Error", "Freeze failed: scoreboard has been frozen.">>
ScrollError == <<"Error", "Scroll failed: scoreboard has not been frozen.">>

\* the state is the one a Ranker pass left: after FLUSH, and at every point
\* of a scroll from its first pass on
AfterRankerPass ==
    \/ pc = "revealing"
    \/ out # <<>> /\ out[1] \in {FlushInfo, ScrollInfo}

\* a step of the scroll loop that reveals a problem; the team it reveals
RevealStep == pc = "revealing" /\ pc' = "revealing"
Revealed(n) ==
    \E q \in DOMAIN teams[n].problems :
        teams[n].problems[q].frozen /\ ~teams'[n].problems[q].frozen

\* the notifications among the lines written
Changes == {i \in 1..Len(out) : out[i][1] = "change"}

\* number of ProblemStatus records with frozen = true
RECURSIVE FrozenCount(_, _)
FrozenCount(T, names) ==
    IF names = {} THEN 0
    ELSE LET n == CHOOSE x \in names : TRUE
         IN  Cardinality({q \in DOMAIN T[n].problems : T[n].problems[q].frozen})
             + FrozenCount(T, names \ {n})

\* C1: after every Ranker pass the ranks of the N registered teams are a
\* bijection onto 1..N: every value of 1..N is the rank of exactly one team
C1_RankBijection ==
    AfterRankerPass =>
        /\ \A n \in Registered : teams[n].ranking \in 1..Len(team_order)
        /\ \A r \in 1..Len(team_order) :
              Cardinality({n \in Registered : teams[n].ranking = r}) = 1

\* C1 witness: a pass has ranked three teams of which two have solved a
\* problem and agree on solved count, penalty and solve-time profile
C1_Witness ==
    /\ AfterRankerPass
    /\ Len(team_order) = 3
    /\ \E x, y \in Registered :
          /\ x # y
          /\ SolvedOf(teams, x) = 1 /\ SolvedOf(teams, y) = 1
          /\ PenaltyOf(teams, x) = PenaltyOf(teams, y)
          /\ ProfileOf(teams, x) = ProfileOf(teams, y)

C3_NoRankWorsens ==
    [][RevealStep => \A n \in Registered : teams'[n].ranking <= teams[n].ranking]_vars

\* C3 as amended: across a reveal the revealed team's rank does not grow, and
\* every other team's rank stays or grows by exactly one, growing exactly
\* when the revealed team moves from behind it to before it
C3_RevealedNeverWorsens ==
    [][RevealStep =>
        \E n \in Registered :
            /\ Revealed(n)
            /\ teams'[n].ranking <= teams[n].ranking
            /\ \A m \in Registered \ {n} :
                  IF teams[m].ranking < teams[n].ranking
                     /\ teams'[n].ranking < teams'[m].ranking
                  THEN teams'[m].ranking = teams[m].ranking + 1
                  ELSE teams'[m].ranking = teams[m].ranking]_vars

\* C3 witness: inside a scroll a reveal has moved a team up
C3_Witness ==
    /\ pc = "revealing"
    /\ Changes # {}
    /\ Len(team_order) = 3

\* C4: a reveal writes a notification iff the revealed team's rank became
\* strictly smaller, and then one: the revealed team, the one other team that
\* held its new rank before the reveal, and its exclude-frozen solved count
\* and penalty after the reveal
C4_Notification ==
    [][RevealStep =>
        \E n \in Registered :
            /\ Revealed(n)
            /\ IF teams'[n].ranking < teams[n].ranking
               THEN /\ Cardinality({m \in Registered \ {n} :
                                      teams[m].ranking = teams'[n].ranking}) = 1
                    /\ \E m \in Registered \ {n} :
                          /\ teams[m].ranking = teams'[n].ranking
                          /\ out' = Append(out, <<"change", n, m,
                                                  SolvedOf(teams', n),
                                                  PenaltyOf(teams', n)>>)
               ELSE out' = out]_vars

\* C4 witness: the last line written is the notification of "b" taking the
\* rank of "a" while "a" and "ab" have never submitted: b went from 3 to 1
C4_Witness ==
    /\ pc = "revealing"
    /\ Len(team_order) = 3
    /\ out[Len(out)][1] = "change"
    /\ out[Len(out)][2] = <<98>>
    /\ out[Len(out)][3] = <<97>>
    /\ teams[<<97>>].submissions = <<>>
    /\ teams[<<97, 98>>].submissions = <<>>

\* the non-accepted submissions to problem p in a history that come before
\* its first Accepted one (all of them when there is none)
WrongBeforeFirstAccepted(subs, p) ==
    LET acc == {i \in 1..Len(subs) : subs[i].problem = p /\ subs[i].status = "Accepted"}
    IN  Cardinality({i \in 1..Len(subs) :
                        /\ subs[i].problem = p
                        /\ subs[i].status # "Accepted"
                        /\ \A a \in acc : i < a})

\* C5: once scroll has completed, each problem's wrong-attempt count is the
\* number of non-accepted submissions of the team to it that precede its first
\* Accepted one, however many freeze / scroll cycles there were
C5_WrongAttemptsMatchHistory ==
    (pc = "idle" /\ ~is_frozen) =>
        \A n \in Registered : \A q \in DOMAIN teams[n].problems :
            LET ps == teams[n].problems[q]
            IN  (IF ps.solved THEN ps.wrong_attempts_before_first_success
                 ELSE ps.wrong_attempts_before_freeze)
                = WrongBeforeFirstAccepted(teams[n].submissions, q)

\* a step that appends a submission to team n's history; that submission
SubmitStepBy(n) ==
    /\ pc = "idle"
    /\ Len(teams'[n].submissions) = Len(teams[n].submissions) + 1
LastSub(n) == teams'[n].submissions[Len(teams'[n].submissions)]

\* every registered team's exclude-frozen solved count and penalty are the
\* same before and after the step
FiguresKept ==
    \A m \in Registered :
        /\ SolvedOf(teams', m) = SolvedOf(teams, m)
        /\ PenaltyOf(teams', m) = PenaltyOf(teams, m)

\* C6: in freeze mode a submission to an unsolved problem sets frozen, adds
\* one to the attempts-while-frozen counter and changes nothing else of the
\* ProblemStatus; no step taken in freeze mode other than a reveal of scroll
\* changes a team's exclude-frozen solved count or penalty
C6_FrozenSubmit ==
    [][/\ \A n \in Registered :
             (is_frozen /\ SubmitStepBy(n)) =>
                 LET ps == ProblemAt(teams[n].problems, LastSub(n).problem)
                 IN  ~ps.solved =>
                        teams'[n].problems[LastSub(n).problem] =
                            [ps EXCEPT !.frozen = TRUE,
                                       !.submissions_after_freeze = @ + 1]
       /\ (is_frozen /\ ~RevealStep) => FiguresKept]_vars

\* C6 witness: in freeze mode a team has just submitted Accepted to a problem
\* that is now frozen and still unsolved
C6_Witness ==
    /\ is_frozen /\ pc = "idle" /\ out = <<>>
    /\ \E n \in Registered :
          /\ teams[n].submissions # <<>>
          /\ LET sub == teams[n].submissions[Len(teams[n].submissions)]
             IN  /\ sub.status = "Accepted" /\ ~sub.before_freeze
                 /\ teams[n].problems[sub.problem].frozen
                 /\ ~teams[n].problems[sub.problem].solved
                 /\ teams[n].problems[sub.problem].submissions_after_freeze = 2

\* the non-accepted submissions to problem p in a history
WrongIn(subs, p) ==
    Cardinality({i \in 1..Len(subs) : subs[i].problem = p /\ subs[i].status # "Accepted"})

\* C7: outside freeze mode a submission to an unsolved problem either
\* (Accepted) solves it at the submission time with the number of the team's
\* earlier non-accepted submissions to it as basis, adding time + 20 x basis to
\* the penalty, or (otherwise) adds one to the wrong-attempt counter
C7_UnfrozenSubmit ==
    [][\A n \in Registered :
          (~is_frozen /\ SubmitStepBy(n)) =>
              LET sub   == LastSub(n)
                  ps    == ProblemAt(teams[n].problems, sub.problem)
                  ps2   == teams'[n].problems[sub.problem]
                  wrong == WrongIn(teams[n].submissions, sub.problem)
              IN  ~ps.solved =>
                     IF sub.status = "Accepted"
                     THEN /\ ps2.solved
                          /\ ps2.solve_time = sub.time
                          /\ ps2.wrong_attempts_before_first_success = wrong
                          /\ PenaltyOf(teams', n) =
                                 PenaltyOf(teams, n) + sub.time + 20 * wrong
                     ELSE /\ ~ps2.solved
                          /\ ps2.wrong_attempts_before_freeze =
                                 ps.wrong_attempts_before_freeze + 1]_vars

\* C8: under either visibility mode calculate_team_stats gives the number of
\* counted problems, the sum of their solve_time + 20 x wrong attempts (0 when
\* none is counted) and their solve times in non-increasing order
C8_Stats ==
    \A n \in Registered : \A inc \in BOOLEAN :
        LET st == calculate_team_stats(teams[n], inc)
            S  == Counted(teams, n, inc)
            v  == st.solve_times
        IN  /\ st.solved_count = Cardinality(S)
            /\ st.penalty_time = PenaltySum(teams[n].problems, S)
            /\ (S = {} => st.penalty_time = 0)
            /\ Len(v) = Cardinality(S)
            /\ \A i \in 1..Len(v) - 1 : v[i] >= v[i + 1]
            /\ \A t \in Times \cup Range(v) :
                  Cardinality({i \in 1..Len(v) : v[i] = t})
                  = Cardinality({q \in S : teams[n].problems[q].solve_time = t})

\* C8 witness: a team solved A at 1 and B at 21, so the profile is the map
\* order reversed
C8_Witness ==
    \E n \in Registered :
        /\ DOMAIN teams[n].problems = {"A", "B"}
        /\ teams[n].problems["A"].solved /\ teams[n].problems["A"].solve_time = 1
        /\ teams[n].problems["B"].solved /\ teams[n].problems["B"].solve_time = 21
        /\ calculate_team_stats(teams[n], FALSE).solve_times = <<21, 1>>

\* everything but the output of the last command
CoreVars == <<teams, team_order, competition_started, is_frozen, duration_time,
              problem_count, problem_names, freeze_time, pc>>

\* C9: freeze succeeds only outside freeze mode and then changes the freeze
\* flag alone; freeze in freeze mode and scroll outside it fail, write their
\* one error line and change nothing; scroll's loop is entered only in freeze mode
C9_FreezeScrollPhase ==
    [][/\ out' = <<FreezeInfo>> =>
             /\ ~is_frozen /\ is_frozen'
             /\ UNCHANGED <<teams, team_order, competition_started, duration_time,
                            problem_count, problem_names, freeze_time, pc>>
       /\ out' = <<FreezeError>> => is_frozen /\ UNCHANGED CoreVars
       /\ out' = <<ScrollError>> => ~is_frozen /\ UNCHANGED CoreVars
       /\ (out' # <<>> /\ out'[1] = ScrollInfo) => is_frozen]_vars

\* C9 witness: a scroll has just failed although a flush would reorder the
\* teams: the team ranked second has solved a problem, the other has not
C9_Witness ==
    /\ out = <<ScrollError>>
    /\ Len(team_order) = 2
    /\ SolvedOf(teams, team_order[1]) = 1
    /\ SolvedOf(teams, team_order[2]) = 0
    /\ teams[team_order[1]].ranking = 2

\* C10: the loop of scroll ends after as many reveals as there are frozen
\* ProblemStatus records when it is entered: inside the loop a next iteration
\* can always run, each reveal lowers the number of frozen records by one,
\* entering the loop leaves that number, and the loop is left only at zero,
\* with freeze mode off and every attempts-while-frozen counter zero
C10_ScrollCompletes ==
    /\ [](pc = "revealing" => LoopReveals \/ LoopExits)
    /\ [][/\ RevealStep =>
                FrozenCount(teams', Registered) = FrozenCount(teams, Registered) - 1
          /\ (pc = "idle" /\ pc' = "revealing") =>
                FrozenCount(teams', Registered) = FrozenCount(teams, Registered)
          /\ (pc = "revealing" /\ pc' = "idle") =>
                /\ FrozenCount(teams, Registered) = 0
                /\ FrozenCount(teams', Registered) = 0
                /\ ~is_frozen'
                /\ \A n \in Registered : \A q \in DOMAIN teams'[n].problems :
                      teams'[n].problems[q].submissions_after_freeze = 0]_vars

\* C10 witness: a scroll over two frozen problems has completed
C10_Witness ==
    /\ pc = "idle" /\ ~is_frozen
    /\ out # <<>> /\ out[1] = ScrollInfo
    /\ \E n \in Registered :
          /\ Len(teams[n].submissions) = 2
          /\ ~teams[n].submissions[1].before_freeze
          /\ ~teams[n].submissions[2].before_freeze
          /\ teams[n].submissions[1].problem # teams[n].submissions[2].problem

\* the lines ADDTEAM writes
AddInfo == <<"Info", "Add successfully.">>
AddStartedError == <<"Error", "Add failed: competition has started.">>
AddDuplicateError == <<"Error", "Add failed: duplicated team name.">>

\* C11: ADDTEAM of a name succeeds exactly when the competition has not
\* started and the name is not registered.  A success adds one team of that
\* name with no problem status and an empty history and leaves the others as
\* they were; a failure leaves the registry and every team unchanged and
\* reports "competition has started" when it has, "duplicated team name"
\* otherwise.
C11_RegisterTeam ==
    [][\A name \in TeamNames :
          add_team(name) =>
              LET ok == ~competition_started /\ name \notin Registered
              IN  /\ (out' = <<AddInfo>>) <=> ok
                  /\ ok => /\ DOMAIN teams' = DOMAIN teams \cup {name}
                            /\ Cardinality(DOMAIN teams') = Cardinality(DOMAIN teams) + 1
                            /\ teams'[name].name = name
                            /\ DOMAIN teams'[name].problems = {}
                            /\ teams'[name].submissions = <<>>
                            /\ \A n \in DOMAIN teams : teams'[n] = teams[n]
                            /\ team_order' = Append(team_order, name)
                  /\ ~ok => /\ teams' = teams
                             /\ team_order' = team_order
                             /\ out' = <<IF competition_started THEN AddStartedError
                                          ELSE AddDuplicateError>>]_vars

\* a duplicate ADDTEAM has failed before the start with three teams registered,
\* one of them ranked by an earlier FLUSH
C11_Witness ==
    /\ out = <<AddDuplicateError>>
    /\ Len(team_order) = 3
    /\ \E n \in Registered : teams[n].ranking # 0

\* the lines START writes
StartInfo == <<"Info", "Competition starts.">>
StartError == <<"Error", "Start failed: competition has started.">>

\* C12: START succeeds exactly when the competition has not started.  A
\* success sets the started flag, makes the problem set the first
\* problemCount identifiers A, B, ... in order, and gives every team as rank
\* its 1-based position in ascending lexicographic order of the names; a START
\* after that fails and leaves the flag, the problem set and all ranks as
\* they were.
C12_StartCompetition ==
    [][\A d \in Durations, c \in ProblemCounts :
          start_competition(d, c) =>
              /\ (out' = <<StartInfo>>) <=> ~competition_started
              /\ ~competition_started =>
                    /\ competition_started'
                    /\ problem_names' = SubSeq(<<"A", "B", "C">>, 1, c)
                    /\ \A n \in Registered :
                          teams'[n].ranking =
                              1 + Cardinality({m \in Registered : LexLess(m, n)})
              /\ competition_started =>
                    /\ out' = <<StartError>>
                    /\ competition_started'
                    /\ problem_names' = problem_names
                    /\ \A n \in Registered : teams'[n].ranking = teams[n].ranking]_vars

\* START has succeeded with two problems and three teams that registered in
\* an order other than the order of their names
C12_Witness ==
    /\ out = <<StartInfo>>
    /\ problem_names = <<"A", "B">>
    /\ Len(team_order) = 3
    /\ teams[team_order[1]].ranking = 3
    /\ teams[team_order[3]].ranking = 2

\* the lines QUERY_SUBMISSION writes
QuerySubmissionInfo == <<"Info", "Complete query submission.">>
QuerySubmissionError == <<"Error", "Query submission failed: cannot find the team.">>
QuerySubmissionNone == <<"Cannot find any submission.">>

\* the positions of a history that match a problem filter and a verdict filter
Matching(subs, p, s) ==
    {i \in 1..Len(subs) : /\ (p = ALL \/ subs[i].problem = p)
                          /\ (s = ALL \/ subs[i].status = s)}

\* C13: QUERY_SUBMISSION on a registered team reports the team's most
\* recently appended submission that matches the problem filter and the
\* verdict filter (ALL matches any), frozen and unrevealed ones included;
\* it reports that none was found exactly when no submission matches, fails
\* when the team is unknown, and changes no state.
C13_QuerySubmission ==
    [][\A n \in TeamNames, p \in Range(Alphabet) \cup {ALL}, s \in Statuses \cup {ALL} :
          query_submission(n, p, s) =>
              /\ UNCHANGED CoreVars
              /\ IF n \notin Registered
                 THEN out' = <<QuerySubmissionError>>
                 ELSE LET subs == teams[n].submissions
                          M    == Matching(subs, p, s)
                      IN  IF M = {}
                          THEN out' = <<QuerySubmissionInfo, QuerySubmissionNone>>
                          ELSE \E k \in M :
                                  /\ \A j \in M : j <= k
                                  /\ out' = <<QuerySubmissionInfo,
                                              <<"submission", n, subs[k].problem,
                                                subs[k].status, subs[k].time>>>>]_vars

\* in freeze mode a query has reported a team's second submission, made after
\* the freeze to a problem still frozen, and not its first, to the same problem
C13_Witness ==
    /\ is_frozen
    /\ Len(out) = 2
    /\ out[2][1] = "submission"
    /\ LET subs == teams[out[2][2]].submissions
       IN  /\ Len(subs) = 2
           /\ ~subs[2].before_freeze
           /\ teams[out[2][2]].problems[subs[2].problem].frozen
           /\ subs[1].problem = subs[2].problem
           /\ subs[1].status # subs[2].status
           /\ out[2] = <<"submission", out[2][2], subs[2].problem, subs[2].status,
                         subs[2].time>>

\* C14: a ProblemStatus that is solved keeps its solved flag, solve time,
\* wrong-attempt basis and frozen flag through every step; a submission to a
\* solved problem changes nothing of the team but its history, which gains
\* that one record; and every step leaves each history as it was or appends
\* one record to it.
C14_SolvedIsFinal ==
    [][\A n \in Registered :
          LET old == teams[n]
              new == teams'[n]
          IN  /\ \A q \in DOMAIN old.problems :
                    old.problems[q].solved =>
                        /\ q \in DOMAIN new.problems
                        /\ new.problems[q].solved
                        /\ new.problems[q].solve_time = old.problems[q].solve_time
                        /\ new.problems[q].wrong_attempts_before_first_success =
                               old.problems[q].wrong_attempts_before_first_success
                        /\ new.problems[q].frozen = old.problems[q].frozen
              /\ Len(new.submissions) \in {Len(old.submissions), Len(old.submissions) + 1}
              /\ SubSeq(new.submissions, 1, Len(old.submissions)) = old.submissions
              /\ (/\ SubmitStepBy(n)
                  /\ LastSub(n).problem \in DOMAIN old.problems
                  /\ old.problems[LastSub(n).problem].solved)
                    => /\ new = [old EXCEPT !.submissions = Append(@, LastSub(n))]
                       /\ \A m \in Registered \ {n} : teams'[m] = teams[m]]_vars

\* a team solved a problem at time 1 and then sent an Accepted submission to
\* it at time 21
C14_Witness ==
    \E n \in Registered :
        LET subs == teams[n].submissions
        IN  /\ Len(subs) = 2
            /\ subs[1].problem = subs[2].problem
            /\ subs[1].status = "Accepted" /\ subs[1].time = 1
            /\ subs[2].status = "Accepted" /\ subs[2].time = 21
            /\ teams[n].problems[subs[1].problem].solved
            /\ teams[n].problems[subs[1].problem].solve_time = 1

\* C15: the Ranker is idempotent: run twice in a row on any reachable state,
\* the second pass leaves every team's rank, solved count, penalty time and
\* solve-time profile as the first pass set them, and neither pass changes a
\* ProblemStatus or a submission history.
C15_RankerIdempotent ==
    LET T1 == flush_scoreboard(teams, team_order)
        T2 == flush_scoreboard(T1, team_order)
    IN  \A n \in Registered :
            /\ T2[n].ranking = T1[n].ranking
            /\ T2[n].solved_count = T1[n].solved_count
            /\ T2[n].penalty_time = T1[n].penalty_time
            /\ T2[n].solve_times = T1[n].solve_times
            /\ T1[n].problems = teams[n].problems
            /\ T2[n].problems = teams[n].problems
            /\ T1[n].submissions = teams[n].submissions
            /\ T2[n].submissions = teams[n].submissions

\* FLUSH has run with three teams, one of them with a solved problem and
\* ranked first though its name is not the least; a second FLUSH would be the
\* second pass in a row
C15_Witness ==
    /\ out = <<FlushInfo>>
    /\ Len(team_order) = 3
    /\ \E n \in Registered :
          /\ teams[n].ranking = 1
          /\ teams[n].solved_count = 1
          /\ \E m \in Registered : LexLess(m, n)
    /\ flush_scoreboard(teams, team_order) = teams

\* the teams that hold a frozen problem; the place of a problem in the
\* canonical order A, B, C
HoldsFrozen(n) == \E q \in DOMAIN teams[n].problems : teams[n].problems[q].frozen
PlaceOf(q) == CHOOSE i \in 1..3 : <<"A", "B", "C">>[i] = q

\* C16: an iteration of the scroll loop clears the frozen flag of exactly one
\* ProblemStatus and sets none.  It is a problem of the team whose current
\* rank is the largest among the teams holding a frozen problem (every other
\* such team precedes it in the exclude-frozen order), and of that team's
\* frozen problems it is the first in the order A, B, C; so a team's problems
\* are revealed in increasing order, each once.
C16_RevealOrder ==
    [][RevealStep =>
          \E n \in Registered :
              \E q \in DOMAIN teams[n].problems :
                  /\ teams[n].problems[q].frozen
                  /\ ~teams'[n].problems[q].frozen
                  /\ \A m \in Registered :
                        /\ \A r \in DOMAIN teams[m].problems :
                              <<m, r>> # <<n, q>> =>
                                  teams'[m].problems[r] = teams[m].problems[r]
                        /\ \A r \in DOMAIN teams'[m].problems \ DOMAIN teams[m].problems :
                              ~teams'[m].problems[r].frozen
                        /\ (HoldsFrozen(m) /\ m # n) =>
                              /\ teams[m].ranking < teams[n].ranking
                              /\ Precedes(teams, m, n)
                  /\ \A r \in DOMAIN teams[n].problems :
                        teams[n].problems[r].frozen => PlaceOf(q) <= PlaceOf(r)]_vars

\* inside a scroll one team's frozen problem has been revealed while another
\* team still holds a frozen problem
C16_Witness ==
    /\ pc = "revealing"
    /\ \E n, m \in Registered :
          /\ n # m
          /\ \E q \in DOMAIN teams[n].problems :
                /\ teams[n].problems[q].submissions_after_freeze >= 1
                /\ ~teams[n].problems[q].frozen
          /\ HoldsFrozen(m)

\* the attempts-while-frozen counter of a team's problem, 0 while the team
\* has no ProblemStatus for it
AttemptsWhileFrozen(T, n, q) ==
    IF q \in DOMAIN T[n].problems THEN T[n].problems[q].submissions_after_freeze ELSE 0

\* C17: between commands a ProblemStatus is frozen only in freeze mode, only
\* if it is not solved and only with an attempts-while-frozen counter of at
\* least 1; outside freeze mode none is frozen and every counter is 0.  The
\* counter of an unsolved problem is the number of the team's submissions to
\* it since the current freeze began: it is 0 when FREEZE succeeds, a
\* submission to the problem in freeze mode adds one to it, and no other
\* command moves it while the freeze lasts.
C17_FrozenCounters ==
    /\ [](pc # "revealing" =>
            \A n \in Registered :
                \A q \in DOMAIN teams[n].problems :
                    LET ps == teams[n].problems[q]
                    IN  /\ ps.frozen => /\ is_frozen
                                         /\ ~ps.solved
                                         /\ ps.submissions_after_freeze >= 1
                        /\ ~is_frozen => /\ ~ps.frozen
                                          /\ ps.submissions_after_freeze = 0)
    /\ [][(pc = "idle" /\ pc' = "idle" /\ is_frozen') =>
             \A n \in Registered :
                 \A q \in Range(Alphabet) :
                     AttemptsWhileFrozen(teams', n, q) =
                         IF ~is_frozen THEN 0
                         ELSE AttemptsWhileFrozen(teams, n, q)
                              + (IF /\ SubmitStepBy(n)
                                    /\ LastSub(n).problem = q
                                    /\ ~teams'[n].problems[q].solved
                                 THEN 1 ELSE 0)]_vars

\* in a second freeze a problem is frozen with a counter of 1 while the
\* team's history holds two submissions to it made after a freeze
C17_Witness ==
    /\ pc = "idle"
    /\ is_frozen
    /\ \E n \in Registered :
          \E q \in DOMAIN teams[n].problems :
              /\ teams[n].problems[q].frozen
              /\ teams[n].problems[q].submissions_after_freeze = 1
              /\ Cardinality({i \in 1..Len(teams[n].submissions) :
                                 IsFrozenSub(teams[n].submissions[i], q)}) = 2

\* the lines QUERY_RANKING writes
QueryRankingInfo == <<"Info", "Complete query ranking.">>
QueryRankingError == <<"Error", "Query ranking failed: cannot find the team.">>

\* C18: a step changes the rank of a team only if it is a successful START,
\* a FLUSH or a step of a SCROLL in freeze mode; SUBMIT, FREEZE, the two
\* queries and every failing command leave all ranks as they were.
\* QUERY_RANKING changes no state and reports the rank field as it stands,
\* the one the last such pass assigned.
C18_RankSnapshot ==
    [][/\ (\E n \in Registered : teams'[n].ranking # teams[n].ranking) =>
              /\ out' # <<>>
              /\ out'[1] \in {StartInfo, FlushInfo, ScrollInfo}
       /\ \A n \in TeamNames :
              query_ranking(n) =>
                  /\ UNCHANGED CoreVars
                  /\ IF n \notin Registered
                     THEN out' = <<QueryRankingError>>
                     ELSE /\ out'[1] = QueryRankingInfo
                          /\ out'[Len(out')] = <<"ranking", n, teams[n].ranking>>
                          /\ Len(out') = IF is_frozen THEN 3 ELSE 2]_vars

\* QUERY_RANKING has reported for a team the rank of the last pass, which is
\* not the rank a pass over the submissions made since would give it
C18_Witness ==
    /\ Len(out) = 2
    /\ out[1] = QueryRankingInfo
    /\ out[2][1] = "ranking"
    /\ out[2][3] = teams[out[2][2]].ranking
    /\ out[2][3] >= 1
    /\ flush_scoreboard(teams, team_order)[out[2][2]].ranking # out[2][3]

\* C19: in every reachable state the rank of every registered team is an
\* integer of 1..N, N the number of registered teams: before START too, and
\* for a team registered after a FLUSH that came before START.  Team() sets
\* ranking to 0 and only START, FLUSH and SCROLL write it, so this fails.
C19_RankAtLeastOne ==
    \A n \in Registered : teams[n].ranking \in 1..Len(team_order)

\* C20: in every reachable state, the states between two iterations of a
\* scroll included, no ProblemStatus is solved and frozen at once; so
\* calculate_team_stats gives a team the same solved count, penalty time and
\* solve-time profile with include_frozen true and false, and the teams sort
\* the same way under both.
C20_NoSolvedFrozen ==
    /\ \A n \in Registered :
          /\ \A q \in DOMAIN teams[n].problems :
                ~(teams[n].problems[q].solved /\ teams[n].problems[q].frozen)
          /\ LET with    == calculate_team_stats(teams[n], TRUE)
                 without == calculate_team_stats(teams[n], FALSE)
             IN  /\ with.solved_count = without.solved_count
                 /\ with.penalty_time = without.penalty_time
                 /\ with.solve_times = without.solve_times
    /\ SortTeams(teams, team_order, TRUE) = SortTeams(teams, team_order, FALSE)

\* inside a scroll a reveal has solved one problem while another is still
\* frozen
C20_Witness ==
    /\ pc = "revealing"
    /\ \E n \in Registered :
          \E q \in DOMAIN teams[n].problems :
              /\ teams[n].problems[q].solved
              /\ teams[n].problems[q].submissions_after_freeze >= 1
    /\ \E m \in Registered : HoldsFrozen(m)

====
